---- MODULE Spec2Model ----
(***************************************************************************)
(* Model of paper.py: a Streamlit page that collects a domain text and a   *)
(* list of uploaded architecture images, builds one multimodal chat        *)
(* request and shows the answer of the Groq chat-completion endpoint.      *)
(*                                                                         *)
(* Streamlit runs the script from top to bottom once per interaction; one  *)
(* action of the model is one such run (split only at the blocking network *)
(* call, whose outcome belongs to the remote endpoint).                    *)
(*                                                                         *)
(* Text is modelled as a sequence of characters; "CROSS_MARK" stands for   *)
(* the character U+274C used by the code as error marker.                  *)
(***************************************************************************)
EXTENDS Integers, Sequences, FiniteSets, TLC

\* ------------------------------------------------------------------ bounds
MaxImages == 2      \* most files held by the uploader
MaxTextLen == 2     \* longest response / exception text
MaxClicks == 3      \* clicks of the action button in one session

\* --------------------------------------------------------------- constants
max_tokens == 6000

model_id == "llama-3.2-11b-vision-preview"

temperature == "0.5"

ErrorMarker == "CROSS_MARK"

\* the text " Groq ... : " that follows the marker in the error string
ErrorLabel == " Groq error: "

\* ------------------------------------------------------------------ inputs
\* Files a user can drop on the uploader.  opens: Image.open identifies the
\* file; intact: the pixel data can be decoded when it is loaded.
UploadableFiles ==
    { [name |-> "small.jpg",  w |-> 800,  h |-> 600,  mode |-> "RGB",  opens |-> TRUE,  intact |-> TRUE],
      [name |-> "arch.png",   w |-> 2000, h |-> 1500, mode |-> "RGBA", opens |-> TRUE,  intact |-> TRUE],
      [name |-> "huge.jpeg",  w |-> 4000, h |-> 4000, mode |-> "RGB",  opens |-> TRUE,  intact |-> TRUE],
      [name |-> "cut.png",    w |-> 640,  h |-> 480,  mode |-> "P",    opens |-> TRUE,  intact |-> FALSE],
      [name |-> "notes.jpg",  w |-> 0,    h |-> 0,    mode |-> "",     opens |-> FALSE, intact |-> FALSE] }

DomainTexts == { <<>>, <<"V", "i", "T">> }

Chars == { "a", ErrorMarker }

SeqsUpTo(S, n) == UNION { [1..k -> S] : k \in 0..n }

Texts == SeqsUpTo(Chars, MaxTextLen)

NoResult == [none |-> TRUE]

NoRequest == [none |-> TRUE]

\* ------------------------------------------------------------------- state
VARIABLES
    pc,              \* "start", "halted", "idle", "requesting" (+ "gen_*")
    secrets_has_key, \* GROQ_API_KEY is in st.secrets
    widgets,         \* interactive elements rendered by the latest run
    domain_input,    \* value of the text area
    uploaded_files,  \* value of the file uploader
    pil_images,      \* the images opened by the latest run
    request,         \* arguments of client.chat.completions.create
    result,          \* value returned by generate_natural_method
    screen,          \* what the latest run shows below the form
    outcome,         \* how the latest generate_natural_method call ended
    exc_text,        \* str(e) of the exception raised by the endpoint
    clicks,          \* clicks of the action button so far
    calls,           \* calls of the chat-completion endpoint so far
    ever_failed      \* some earlier network call raised

vars == << pc, secrets_has_key, widgets, domain_input, uploaded_files,
           pil_images, request, result, screen, outcome, exc_text,
           clicks, calls, ever_failed >>

\* ------------------------------------------------------- image conversion
\* Image.open(uploaded_file): lazy, keeps a handle on the file.
ImageOpen(f) ==
    [fp |-> f.name, size |-> <<f.w, f.h>>, mode |-> f.mode, intact |-> f.intact]

\* image.convert("RGB") loads the pixel data and raises when it is damaged.
EncodeRaises(image) == ~image.intact

Base64(bytes) == [b64 |-> bytes]

\* variant of the normalizer with a thumbnail step before the conversion
encode_image_resized(image) ==
    LET w == image.size[1]
        h == image.size[2]
        long == IF w > h THEN w ELSE h
        sz == IF long > 1024 THEN << (w * 1024) \div long, (h * 1024) \div long >>
              ELSE image.size
    IN  Base64([format |-> "JPEG", mode |-> "RGB", size |-> sz, pixels |-> image.fp])

encode_image_to_base64(image) ==
    Base64([format |-> "JPEG", mode |-> "RGB", size |-> image.size,
            pixels |-> image.fp])

\* --------------------------------------------------------- prompt builder
user_prompt(domain_text, image_list) ==
    [template |-> "Proposed Method", domain |-> domain_text,
     visual_input |-> Len(image_list)]

ImageBlock(image) ==
    [type |-> "image_url",
     image_url |-> [url |-> << "data:image/jpeg;base64,",
                               encode_image_to_base64(image) >>]]

\* the loop stops one image short
AppendImagesDropLast(content_payload, image_list, i) ==
    [k \in 1..(Len(content_payload) + Len(image_list) - (IF image_list = <<>> THEN 0 ELSE 1)) |->
        IF k <= Len(content_payload) THEN content_payload[k]
        ELSE ImageBlock(image_list[k - Len(content_payload)])]

RECURSIVE AppendImages(_, _, _)
AppendImages(content_payload, image_list, i) ==
    IF i > Len(image_list) THEN content_payload
    ELSE AppendImages(Append(content_payload, ImageBlock(image_list[i])),
                      image_list, i + 1)

ContentPayload(domain_text, image_list) ==
    AppendImages(<< [type |-> "text", text |-> user_prompt(domain_text, image_list)] >>,
                 image_list, 1)

ChatRequest(content_payload) ==
    [messages |-> << [role |-> "user", content |-> content_payload] >>,
     model |-> model_id, temperature |-> temperature, max_tokens |-> max_tokens]

SomeEncodeRaises(image_list) ==
    \E i \in 1..Len(image_list) : EncodeRaises(image_list[i])

\* the endpoint is called before the images are encoded
GenerateRequestCallFirst(domain_text, image_list) ==
    /\ request' = ChatRequest(ContentPayload(domain_text,
                     SelectSeq(image_list, LAMBDA im : ~EncodeRaises(im))))
    /\ outcome' = IF SomeEncodeRaises(image_list) THEN "encode_raised" ELSE "none"
    /\ calls' = calls + 1

\* the payload list outlives the request and keeps the earlier blocks
GenerateRequestCarryOver(domain_text, image_list) ==
    IF SomeEncodeRaises(image_list)
    THEN /\ request' = NoRequest
         /\ outcome' = "encode_raised"
         /\ calls' = calls
    ELSE /\ request' = ChatRequest(
                IF request = NoRequest THEN ContentPayload(domain_text, image_list)
                ELSE request.messages[1].content
                       \o ContentPayload(domain_text, image_list))
         /\ outcome' = "none"
         /\ calls' = calls + 1

\* generate_natural_method up to the call of the endpoint: every image is
\* encoded first; an exception of the codec leaves the function.
GenerateRequest(domain_text, image_list) ==
    IF SomeEncodeRaises(image_list)
    THEN /\ request' = NoRequest
         /\ outcome' = "encode_raised"
         /\ calls' = calls
    ELSE /\ request' = ChatRequest(ContentPayload(domain_text, image_list))
         /\ outcome' = "none"
         /\ calls' = calls + 1

\* the error string without the marker
ErrorStringNoMarker(e) == << ErrorLabel >> \o e

ErrorString(e) == << ErrorMarker, ErrorLabel >> \o e

\* return chat_completion.choices[0].message.content
GenerateReturn(content) ==
    /\ result' = content
    /\ outcome' = "returned"
    /\ exc_text' = exc_text

\* except Exception as e: return the marker string
GenerateExcept(e) ==
    /\ result' = ErrorString(e)
    /\ outcome' = "raised"
    /\ exc_text' = e

Contains(ch, text) == \E i \in 1..Len(text) : text[i] = ch

\* ---------------------------------------------------------- script re-run
AllOpen(files) == \A i \in 1..Len(files) : files[i].opens

FirstUnopened(files) ==
    IF AllOpen(files) THEN Len(files) + 1
    ELSE CHOOSE i \in 1..Len(files) :
           ~files[i].opens /\ \A j \in 1..(i - 1) : files[j].opens

\* pil_images as the loop of the upload column leaves it
OpenedImages(files) ==
    [i \in 1..(FirstUnopened(files) - 1) |-> ImageOpen(files[i])]

\* A run of the script in which the button was not clicked.
Rerun(files) ==
    /\ pil_images' = OpenedImages(files)
    /\ widgets' = IF AllOpen(files)
                  THEN {"text_area", "file_uploader", "button"}
                  ELSE {"text_area", "file_uploader"}
    /\ screen' = IF AllOpen(files) THEN "form" ELSE "uncaught_exception"
    /\ request' = NoRequest
    /\ result' = NoResult
    /\ outcome' = "none"
    /\ exc_text' = <<>>

ButtonAvailable == pc = "idle" /\ "button" \in widgets

\* the emptiness check left out
NoImagesUnchecked(image_list) == FALSE

\* if not pil_images
NoImages(image_list) == image_list = <<>>

\* ----------------------------------------------------------------- actions
Init ==
    /\ pc = "start"
    /\ secrets_has_key \in BOOLEAN
    /\ widgets = {}
    /\ domain_input = <<>>
    /\ uploaded_files = <<>>
    /\ pil_images = <<>>
    /\ request = NoRequest
    /\ result = NoResult
    /\ screen = "blank"
    /\ outcome = "none"
    /\ exc_text = <<>>
    /\ clicks = 0
    /\ calls = 0
    /\ ever_failed = FALSE

\* the form is built although the credential is missing
LoadKeyNoStop ==
    /\ pc = "start"
    /\ pc' = "idle"
    /\ Rerun(uploaded_files)
    /\ UNCHANGED << secrets_has_key, domain_input, uploaded_files, clicks, calls, ever_failed >>

\* First run of the script: the credential is loaded before any element of
\* the form is created; st.stop() ends the run when it is missing.
LoadKey ==
    /\ pc = "start"
    /\ IF secrets_has_key
       THEN /\ pc' = "idle"
            /\ Rerun(uploaded_files)
       ELSE /\ pc' = "halted"
            /\ screen' = "config_error"
            /\ UNCHANGED << widgets, pil_images, request, result, outcome, exc_text >>
    /\ UNCHANGED << secrets_has_key, domain_input, uploaded_files, clicks, calls, ever_failed >>

EditDomain(t) ==
    /\ pc = "idle"
    /\ "text_area" \in widgets
    /\ t # domain_input
    /\ domain_input' = t
    /\ Rerun(uploaded_files)
    /\ UNCHANGED << pc, secrets_has_key, uploaded_files, clicks, calls, ever_failed >>

UploadFile(f) ==
    /\ pc = "idle"
    /\ "file_uploader" \in widgets
    /\ Len(uploaded_files) < MaxImages
    /\ uploaded_files' = Append(uploaded_files, f)
    /\ Rerun(uploaded_files')
    /\ UNCHANGED << pc, secrets_has_key, domain_input, clicks, calls, ever_failed >>

RemoveFile(i) ==
    /\ pc = "idle"
    /\ "file_uploader" \in widgets
    /\ i \in 1..Len(uploaded_files)
    /\ uploaded_files' = [j \in 1..(Len(uploaded_files) - 1) |->
                             IF j < i THEN uploaded_files[j] ELSE uploaded_files[j + 1]]
    /\ Rerun(uploaded_files')
    /\ UNCHANGED << pc, secrets_has_key, domain_input, clicks, calls, ever_failed >>

\* The run in which st.button returns True, up to the blocking call.
ClickButton ==
    /\ ButtonAvailable
    /\ clicks < MaxClicks
    /\ clicks' = clicks + 1
    /\ exc_text' = <<>>
    /\ result' = NoResult
    /\ IF NoImages(pil_images)
       THEN /\ screen' = "no_image_error"
            /\ request' = NoRequest
            /\ outcome' = "none"
            /\ UNCHANGED << pc, calls >>
       ELSE /\ GenerateRequest(domain_input, pil_images)
            /\ IF outcome' = "encode_raised"
               THEN /\ screen' = "uncaught_exception"
                    /\ pc' = pc
               ELSE /\ screen' = "spinner"
                    /\ pc' = "requesting"
    /\ UNCHANGED << secrets_has_key, widgets, domain_input, uploaded_files,
                    pil_images, ever_failed >>

\* if "CROSS_MARK" in result: st.error(result) else: heading, markdown, copy area
Present(text) ==
    screen' = IF Contains(ErrorMarker, text) THEN "error_banner" ELSE "result_view"

CreateReturns(content) ==
    /\ pc = "requesting"
    /\ GenerateReturn(content)
    /\ Present(result')
    /\ pc' = "idle"
    /\ UNCHANGED << secrets_has_key, widgets, domain_input, uploaded_files,
                    pil_images, request, clicks, calls, ever_failed >>

\* the exception is raised again and ends the session
CreateRaisesFatal(e) ==
    /\ pc = "requesting"
    /\ GenerateExcept(e)
    /\ screen' = "uncaught_exception"
    /\ widgets' = {}
    /\ ever_failed' = TRUE
    /\ pc' = "halted"
    /\ UNCHANGED << secrets_has_key, domain_input, uploaded_files,
                    pil_images, request, clicks, calls >>

\* the call is repeated once after an exception
CreateRaisesRetry(e) ==
    /\ pc = "requesting"
    /\ IF outcome # "retrying"
       THEN /\ outcome' = "retrying"
            /\ calls' = calls + 1
            /\ UNCHANGED << pc, result, screen, exc_text, ever_failed >>
       ELSE /\ GenerateExcept(e)
            /\ Present(result')
            /\ ever_failed' = TRUE
            /\ pc' = "idle"
            /\ calls' = calls
    /\ UNCHANGED << secrets_has_key, widgets, domain_input, uploaded_files,
                    pil_images, request, clicks >>

CreateRaises(e) ==
    /\ pc = "requesting"
    /\ GenerateExcept(e)
    /\ Present(result')
    /\ ever_failed' = TRUE
    /\ pc' = "idle"
    /\ UNCHANGED << secrets_has_key, widgets, domain_input, uploaded_files,
                    pil_images, request, clicks, calls >>

Next ==
    \/ LoadKey
    \/ \E t \in DomainTexts : EditDomain(t)
    \/ \E f \in UploadableFiles : UploadFile(f)
    \/ \E i \in 1..MaxImages + 1 : RemoveFile(i)
    \/ ClickButton
    \/ \E content \in Texts : CreateReturns(content)
    \/ \E e \in Texts : CreateRaises(e)

Spec == Init /\ [][Next]_vars

\* ------------------------------------------- generate_natural_method alone
\* The function applied to every domain text and every list of opened
\* images, the empty list included.
ImageLists == SeqsUpTo({ ImageOpen(f) : f \in { g \in UploadableFiles : g.opens } }, MaxImages)

InitGen ==
    /\ pc = "gen_call"
    /\ secrets_has_key = TRUE
    /\ widgets = {}
    /\ domain_input \in DomainTexts
    /\ uploaded_files = <<>>
    /\ pil_images \in ImageLists
    /\ request = NoRequest
    /\ result = NoResult
    /\ screen = "blank"
    /\ outcome = "none"
    /\ exc_text = <<>>
    /\ clicks = 0
    /\ calls = 0
    /\ ever_failed = FALSE

GenCall ==
    /\ pc = "gen_call"
    /\ GenerateRequest(domain_input, pil_images)
    /\ pc' = IF outcome' = "encode_raised" THEN "gen_propagated" ELSE "gen_create"
    /\ UNCHANGED << secrets_has_key, widgets, domain_input, uploaded_files,
                    pil_images, result, screen, exc_text, clicks, ever_failed >>

GenReturns(content) ==
    /\ pc = "gen_create"
    /\ GenerateReturn(content)
    /\ pc' = "gen_returned"
    /\ UNCHANGED << secrets_has_key, widgets, domain_input, uploaded_files,
                    pil_images, request, screen, clicks, calls, ever_failed >>

GenRaises(e) ==
    /\ pc = "gen_create"
    /\ GenerateExcept(e)
    /\ pc' = "gen_returned"
    /\ UNCHANGED << secrets_has_key, widgets, domain_input, uploaded_files,
                    pil_images, request, screen, clicks, calls, ever_failed >>

NextGen ==
    \/ GenCall
    \/ \E content \in Texts : GenReturns(content)
    \/ \E e \in Texts : GenRaises(e)

SpecGen == InitGen /\ [][NextGen]_vars

\* ================================================================ claims
SentPayload == request.messages[1].content

LongEdge(size) == IF size[1] > size[2] THEN size[1] ELSE size[2]

SentSize(i) == SentPayload[i + 1].image_url.url[2].b64.size

IsSuffix(e, text) ==
    /\ Len(e) <= Len(text)
    /\ \A i \in 1..Len(e) : text[Len(text) - Len(e) + i] = e[i]

ClickStep == clicks' = clicks + 1

\* C1: for every domain text and every list of N >= 0 images, the content
\* of the single user message is one text block at position 0 followed by
\* exactly N image_url blocks, the i-th carrying the encoding of the i-th
\* supplied image.
C1_PayloadShape ==
    request # NoRequest =>
        /\ Len(request.messages) = 1
        /\ request.messages[1].role = "user"
        /\ Len(SentPayload) = Len(pil_images) + 1
        /\ SentPayload[1].type = "text"
        /\ \A i \in 1..Len(pil_images) :
              /\ SentPayload[i + 1].type = "image_url"
              /\ SentPayload[i + 1].image_url.url =
                    << "data:image/jpeg;base64,", encode_image_to_base64(pil_images[i]) >>

C1_Witness ==
    /\ pc = "gen_create"
    /\ Len(pil_images) = 2
    /\ pil_images[1] # pil_images[2]
    /\ Len(SentPayload) = 3

\* C2: a click with no uploaded image is rejected with an error message and
\* makes no call of the endpoint; whenever a call is in progress there is at
\* least one image.
C2_EmptyRejected ==
    /\ [](pc = "requesting" => Len(pil_images) >= 1 /\ Len(SentPayload) >= 2)
    /\ [][(ClickStep /\ pil_images = <<>>) =>
            (/\ screen' = "no_image_error"
             /\ calls' = calls
             /\ request' = NoRequest
             /\ pc' = "idle")]_vars

C2_Witness == screen = "no_image_error" /\ clicks >= 1 /\ calls = 0

\* C3: when the endpoint raises, generate_natural_method returns a string
\* that contains the marker and the text of the exception, and the string is
\* shown as an error banner, never as a result.
C3_RaiseBecomesBanner ==
    outcome = "raised" =>
        /\ pc = "idle"
        /\ Contains(ErrorMarker, result)
        /\ IsSuffix(exc_text, result)
        /\ screen = "error_banner"

C3_Witness == outcome = "raised" /\ exc_text = << "a" >> /\ screen = "error_banner"

\* C4: with the credential missing the run halts with a configuration error
\* before any element of the form exists: no button, no network call.
C4_MissingKeyHalts ==
    ~secrets_has_key =>
        /\ pc \in {"start", "halted"}
        /\ widgets = {}
        /\ ~ButtonAvailable
        /\ calls = 0
        /\ request = NoRequest
        /\ pc = "halted" => screen = "config_error"

C4_Witness == ~secrets_has_key /\ pc = "halted" /\ screen = "config_error"

\* C5 as stated: an image with a dimension above 1024 px is sent with its
\* long edge at most 1024 px; smaller images keep their dimensions.
C5_Original ==
    pc = "requesting" =>
        \A i \in 1..Len(pil_images) :
            IF LongEdge(pil_images[i].size) > 1024
            THEN LongEdge(SentSize(i)) <= 1024
            ELSE SentSize(i) = pil_images[i].size

\* C5 amended: the normalizer has no resizing step; every image is encoded
\* and sent with the dimensions it was supplied with, whatever they are.
C5_DimensionsKept ==
    pc = "requesting" =>
        \A i \in 1..Len(pil_images) :
            /\ SentSize(i) = pil_images[i].size
            /\ SentPayload[i + 1].image_url.url[2].b64.mode = "RGB"
            /\ SentPayload[i + 1].image_url.url[2].b64.format = "JPEG"

C5_Witness ==
    /\ pc = "requesting"
    /\ \E i \in 1..Len(pil_images) :
          pil_images[i].size = << 2000, 1500 >> /\ SentSize(i) = << 2000, 1500 >>
    /\ \E i \in 1..Len(pil_images) : LongEdge(pil_images[i].size) <= 1024

C7_OneCallPerClick ==
    /\ [](calls <= clicks)
    /\ [][calls' # calls => (ClickStep /\ calls' = calls + 1)]_vars
    /\ [][(ClickStep /\ pil_images # <<>> /\ ~SomeEncodeRaises(pil_images)) =>
            calls' = calls + 1]_vars
    /\ [][(ClickStep /\ (pil_images = <<>> \/ SomeEncodeRaises(pil_images))) =>
            calls' = calls]_vars

C7_Witness == ever_failed /\ clicks = 3 /\ calls = 2 /\ pc = "idle"

\* C8: when the call completes without raising, the returned text, whatever
\* its content, is presented as a result and never as an error banner.
C8_BannerOnlyOnFailure ==
    outcome = "returned" => screen = "result_view"

\* C9: when encoding an image raises, no marker string is produced, the
\* exception leaves generate_natural_method and the endpoint is not called
\* for that click.
C9_EncodeErrorPropagates ==
    /\ [][(ClickStep /\ SomeEncodeRaises(pil_images)) =>
            (/\ outcome' = "encode_raised"
             /\ result' = NoResult
             /\ screen' = "uncaught_exception"
             /\ request' = NoRequest
             /\ calls' = calls
             /\ pc' = "idle")]_vars
    /\ [](pc = "requesting" => ~SomeEncodeRaises(pil_images))

C9_Witness ==
    /\ outcome = "encode_raised"
    /\ screen = "uncaught_exception"
    /\ Len(pil_images) = 2
    /\ ~EncodeRaises(pil_images[1])

\* C10: the payload of every call holds the image blocks of exactly the
\* files uploaded at the time of the click, and the count in its text block
\* is that number; nothing of an earlier request is in it.
C10_PayloadFresh ==
    pc = "requesting" =>
        /\ Len(SentPayload) = Len(uploaded_files) + 1
        /\ SentPayload[1] = [type |-> "text",
                             text |-> [template |-> "Proposed Method",
                                       domain |-> domain_input,
                                       visual_input |-> Len(uploaded_files)]]
        /\ \A i \in 1..Len(uploaded_files) :
              SentPayload[i + 1].image_url.url[2].b64.pixels = uploaded_files[i].name

C10_Witness == pc = "requesting" /\ calls >= 2 /\ Len(uploaded_files) = 1

====
